---------------------------- MODULE Spec2Model ----------------------------
(***************************************************************************)
(* Verification model of the market-price ingestion pipeline               *)
(* (kisanshaktiai/market-ingestor).                                        *)
(*                                                                         *)
(* The repository holds three variants of the same pipeline:               *)
(*   src/apmc_scraper.py          BaseAPMCScraper with resume watermarks   *)
(*   src/msamb_scraper.py         BaseAPMCScraper without resume           *)
(*   src/fetch_real_marketdata.py process_source / upsert_batch            *)
(*                                                                         *)
(* Specifications of this module:                                          *)
(*   Spec       source runs of src/apmc_scraper.py (BaseAPMCScraper.run)   *)
(*   SpecPS     source runs of src/fetch_real_marketdata.py                *)
(*              (process_source, upsert_batch)                             *)
(*   SpecParse  the table parsers of the three files, row by row           *)
(*   SpecMS     source runs of src/msamb_scraper.py (BaseAPMCScraper.run)  *)
(*   SpecUpsert upsert_batch of src/fetch_real_marketdata.py, called twice *)
(*              with one list of payloads on any store                     *)
(*   SpecNorm   the normalisation of one parsed row by each of the files   *)
(*   SpecAlias  the global commodity code of process_source                *)
(*   SpecClean  the numeric cleaners of the three files on one cell text   *)
(*   SpecDate   the date parsers on one date text                          *)
(*   SpecOrch   the loops over the active sources (main, run_all,          *)
(*              run_all_scrapers)                                          *)
(*   SpecFetch  the retrying price request of src/apmc_scraper.py          *)
(*              (fetch_commodity_prices)                                   *)
(***************************************************************************)
EXTENDS Integers, Sequences, FiniteSets, TLC

\* ------------------------------------------------------------------ bounds
\* Commodity codes are 1..NumCodes, price dates 1..MaxDate (ordered as the
\* ISO strings are), market locations 1..NumMarkets.
NumCodes == 2
MaxDate == 3
NumMarkets == 1
\* Modal prices of the rows fetched in runs of apmc_scraper.py: 1..MaxModal.
MaxModal == 1
\* Cleaned prices of fetch_real_marketdata.py: 0, 2, .., 2 * MaxPrice (even,
\* so that the average (min + max) / 2.0 is a whole number of units).
MaxPrice == 2
\* Longest table (number of <tr>) read by a table parser.
MaxTableRows == 4
\* Longest list of rows one commodity fetch returns.
MaxRows == 2
\* Number of source runs (process invocations) followed.
MaxRuns == 2
\* Rows per store call.  The code's default is 100 (apmc_scraper.py:187,
\* fetch_real_marketdata.py:42); the model scales it down so that a run
\* of a few rows is split into several batches.
BatchSize == 2
\* Database calls that fail (raise) in one behaviour.
MaxFaults == 1
\* upsert_batch called on its own: the price dates of the records (the
\* first NumUpsertDates dates), the longest list of payloads, the number
\* of calls made with it.
NumUpsertDates == 2
MaxUpsertLen == 3
UpsertCalls == 2
\* Longest cell text handed to a numeric cleaner, in characters.
MaxTextLen == 3
\* Date texts: the day and month numbers written in them.
MaxDay == 31
MaxMonth == 12
\* Longest list of active sources an orchestrator loops over.
MaxSources == 3

Codes == 1..NumCodes
Dates == 1..MaxDate
Markets == 1..NumMarkets
Modals == 1..MaxModal
PriceVals == {2 * k : k \in 0..MaxPrice}

\* Python None where a date is optional (a missing dict entry, current_date
\* before the first date row): below every date.
None == 0
\* Python None where a price is optional (clean_number's None): no price
\* and no difference of two prices, all even, equals it.
NoPrice == -1

VARIABLES
    \* ---- persisted state (Supabase)
    dbMeta,        \* agri_market_sources.metadata of the source row
    store,         \* market_prices: set of rows, one per natural key
    pc,            \* position in run() / process_source:
                   \* "idle","loop","upsert","status","done"
    todo,          \* commodities.items() still to visit
    batch_i,       \* start index of the next batch (_upsert's i, upsert_batch's start)
    \* ---- src/apmc_scraper.py, one BaseAPMCScraper
    cfgMeta,       \* self.config["metadata"], the row as loaded
    resume_alias,  \* resume_map is config's own "resume" dict (TRUE) or a fresh {} (FALSE)
    urlOk,         \* the source configuration is well formed: base_url and
                   \* data_endpoint are set (apmc_scraper.py build_url), the
                   \* rate_limit_delay is a delay time.sleep accepts
    all_rows,      \* all_rows
    stats,         \* stats
    runs,          \* source runs started so far
    faults,        \* database calls that have raised so far
    \* ---- history of the current run (read by the properties only)
    wm0,           \* persisted watermark of each commodity at the start of the run
    written,       \* commodities whose watermark write reached the database
    fetched,       \* rows returned by fetch_commodity_prices, per commodity
    failed,        \* commodities whose fetch failed
    attempted,     \* commodities visited by the loop
    \* ---- src/fetch_real_marketdata.py, one process_source call
    payloads_to_upsert,  \* payloads_to_upsert
    summary,       \* summary
    total,         \* upsert_batch's total, _upsert_records' total_upserted
    \* ---- the table parsers, one pass over one table
    variant,       \* which file's parser reads the table
    today,         \* datetime.date.today() (msamb_scraper.py parse_date)
    row_i,         \* <tr> rows read so far
    last_row,      \* the <tr> read last
    current_date,  \* current_date
    rows_out,      \* rows_out / records / rows
    good_date,     \* history: date of the last date row that parsed
    g_date,        \* current_date of parse_generic_table_with_mapping
    g_rows,        \* rows_out of parse_generic_table_with_mapping
    raised,        \* float() raised inside MSAMBScraper._parse (apmc)
    \* ---- upsert_batch called on its own
    returned,      \* the totals returned by the calls so far
    store1,        \* history: the store when the first call returned
    last_up,       \* history: per natural key, the record stored last
    batches,       \* history: the chunks handed to the store by this call
    \* ---- normalisation of one parsed row
    raw,           \* the parsed row
    norm,          \* what the normalisation made of it
    \* ---- global commodity code (fetch_real_marketdata.py)
    aliases,       \* commodity_master: alias key -> global_code, for the source
    organization,  \* src["organization"]
    alias_map,     \* alias_map of process_source
    global_code,   \* the commodity resolved and its global_code
    \* ---- numeric cleaners, one cell text
    num_text,      \* the text of the cell
    num_out,       \* which cleaner ran and what it returned
    \* ---- date parsers, one date text
    date_text,     \* the text
    date_out,      \* which parser ran and what it returned
    \* ---- the loop over the active sources
    orch,          \* which file's loop runs
    sources,       \* the outcome each source's run will have, in list order
    src_i,         \* sources visited so far
    ran,           \* history: how often each source was run
    results,       \* results / overall
    \* ---- the delay between the commodity requests of process_source
    slept,         \* history: what followed the last commodity request
    \* ---- fetch_commodity_prices of apmc_scraper.py, one commodity
    attempt,       \* requests issued so far
    responses,     \* history: what each request came to
    fetch_ret      \* whether the call has ended, how, and the rows returned

sharedVars == <<store, pc, todo, batch_i>>

runVars == <<dbMeta, cfgMeta, resume_alias, urlOk, all_rows, stats, runs,
             faults, wm0, written, fetched, failed, attempted>>

psVars == <<payloads_to_upsert, summary, total>>

parseVars == <<variant, today, row_i, last_row, current_date, rows_out,
               good_date, g_date, g_rows, raised>>

upVars == <<returned, store1, last_up, batches>>

normVars == <<raw, norm>>

aliasVars == <<aliases, organization, alias_map, global_code>>

cleanVars == <<num_text, num_out>>

dateVars == <<date_text, date_out>>

orchVars == <<orch, sources, src_i, ran, results>>

delayVars == <<slept>>

fetchVars == <<attempt, responses, fetch_ret>>

auxVars == <<aliasVars, cleanVars, dateVars, orchVars, delayVars, fetchVars>>

vars == <<sharedVars, runVars, psVars, parseVars, upVars, normVars, auxVars>>

\* ------------------------------------------------------------- data model

\* A fetched price row: the natural key (source_id is the one source of
\* the run and is left out) and the modal price.
Row == [code : Codes, date : Dates, market : Markets, modal : Modals]

Key(r) == <<r.code, r.date, r.market>>

\* metadata: Python None ("null") or a dict with a set of keys; "resume"
\* maps commodity codes to dates (None: no entry).
NoResume == [c \in Codes |-> None]
MetaNull == [kind |-> "null", keys |-> {}, resume |-> NoResume]
MetaEmpty == [kind |-> "dict", keys |-> {}, resume |-> NoResume]
MetaOther == [kind |-> "dict", keys |-> {"other"}, resume |-> NoResume]

\* Python truthiness of a metadata value: None and {} are falsy.
Truthy(m) == m.kind = "dict" /\ m.keys # {}

\* The persisted watermark of commodity c in metadata m.
Wm(m, c) == IF m.kind = "dict" /\ "resume" \in m.keys THEN m.resume[c] ELSE None

RECURSIVE SeqMax(_)
SeqMax(s) == IF s = <<>> THEN 0
             ELSE LET m == SeqMax(Tail(s)) IN
                  IF Head(s) > m THEN Head(s) ELSE m

Dates_of(rows) == [i \in 1..Len(rows) |-> rows[i].date]

\* Sequences over S of length at most n.
SeqsUpTo(S, n) == UNION {[1..k -> S] : k \in 0..n}

\* Injective sequences over S: a dict's items(), keys unique.
Perms(S) == {s \in SeqsUpTo(S, Cardinality(S)) :
               \A i, j \in 1..Len(s) : i # j => s[i] # s[j]}


\* ---------------------------------------------------------------- the store

\* A plain insert: the row is added whatever the store holds under its key.
InsertRow(st, r) == st \cup {r}

\* A store call that, on a conflicting key, deletes the stored row and
\* inserts nothing.
DeleteOnConflict(st, r) ==
    IF \E s \in st : Key(s) = Key(r)
    THEN {s \in st : Key(s) # Key(r)}
    ELSE st \cup {r}

\* market_prices.upsert(..., on_conflict="source_id,commodity_code,
\* price_date,market_location"): a row whose natural key is stored replaces
\* the stored row, rows applied in list order.
UpsertRow(st, r) == {s \in st : Key(s) # Key(r)} \cup {r}

RECURSIVE UpsertRows(_, _)
UpsertRows(st, rows) ==
    IF rows = <<>> THEN st
    ELSE UpsertRows(UpsertRow(st, Head(rows)), Tail(rows))

Min(a, b) == IF a < b THEN a ELSE b

\* rows[i:i + batch + 1]: a slice one record longer.
SliceOverlapping(rows, i, batch) ==
    SubSeq(rows, i + 1, Min(i + batch + 1, Len(rows)))

\* rows[i:i + batch]
Slice(rows, i, batch) == SubSeq(rows, i + 1, Min(i + batch, Len(rows)))

\* ------------------------------------------- src/apmc_scraper.py: resume

\* meta = self.config.get("metadata") or {}
MetaOrEmpty(cfg) == IF Truthy(cfg) THEN cfg ELSE MetaEmpty

\* resume = meta.get("resume", {})
ResumeOf(meta) == IF "resume" \in meta.keys THEN meta.resume ELSE NoResume

\* _get_resume_map: the config's own "resume" dict when there is one,
\* otherwise a fresh empty dict that nothing else refers to.
get_resume_alias(cfg) == "resume" \in MetaOrEmpty(cfg).keys

\* resume_map.get(code), read through the alias.
resume_get(alias, cfg, code) == IF alias THEN cfg.resume[code] ELSE None

\* _update_resume_point: the metadata value sent to the database.
resume_point_meta(cfg, code, last_date) ==
    LET meta == MetaOrEmpty(cfg) IN
    [kind |-> "dict",
     keys |-> meta.keys \cup {"resume"},
     resume |-> [ResumeOf(meta) EXCEPT ![code] = last_date]]

\* _update_resume_point mutates config's metadata in place only when that
\* metadata is truthy: `x or {}` of None or of {} is a new dict.
resume_point_cfg(cfg, code, last_date) ==
    IF Truthy(cfg) THEN resume_point_meta(cfg, code, last_date) ELSE cfg

\* A status write that replaces the metadata by the run's status alone,
\* dropping the keys it held (what _update_source would do without the
\* ** spread of the configuration's metadata).
update_source_meta_status_only(cfg) ==
    [kind |-> "dict", keys |-> {"last_run"}, resume |-> NoResume]

\* _update_source: {**(config.metadata or {}), "last_run", "last_success"}
update_source_meta(cfg) ==
    LET meta == MetaOrEmpty(cfg) IN
    [kind |-> "dict", keys |-> meta.keys \cup {"last_run"}, resume |-> meta.resume]

\* The non-strict comparison: a row dated as the watermark would be kept.
Newer_or_equal(r, last_date) == r.date >= last_date

\* r["price_date"] > last_date
Newer(r, last_date) == r.date > last_date

\* The resume filter of run(): rows kept for a commodity whose watermark
\* read is last_date (`if last_date:` skips the filter for None).

resume_filter(rows, last_date) ==
    IF last_date # None
    THEN SelectSeq(rows, LAMBDA r : Newer(r, last_date))
    ELSE rows

\* The variables of the other programs, at rest.
AliasIdle ==
    /\ aliases = <<>>
    /\ organization = ""
    /\ alias_map = <<>>
    /\ global_code = <<>>

CleanIdle ==
    /\ num_text = <<>>
    /\ num_out = [by |-> "none", kind |-> "none", sign |-> 0]

DateIdle ==
    /\ date_text = <<>>
    /\ date_out = [by |-> "none", kind |-> "none", y |-> 0, m |-> 0, d |-> 0]

\* No commodity request has been issued.
DelayIdle == slept = "none"

\* fetch_commodity_prices has not been called.
FetchIdle ==
    /\ attempt = 0
    /\ responses = <<>>
    /\ fetch_ret = [ended |-> "no", rows |-> 0]

OrchIdle ==
    /\ orch = "none"
    /\ sources = <<>>
    /\ src_i = 0
    /\ ran = <<>>
    /\ results = <<>>

UpIdle ==
    /\ returned = <<>>
    /\ store1 = {}
    /\ last_up = <<>>
    /\ batches = <<>>

\* No row normalised yet.
NoNorm == [by |-> "none", emitted |-> FALSE, rec |-> <<>>]

NormIdle ==
    /\ raw = <<>>
    /\ norm = NoNorm

PSIdle ==
    /\ payloads_to_upsert = <<>>
    /\ summary = [rows_fetched |-> 0, rows_upserted |-> 0, errors |-> <<>>,
                  commodities_processed |-> 0]
    /\ total = 0

ParseIdle ==
    /\ variant = "none"
    /\ today = 1
    /\ row_i = 0
    /\ last_row = [n |-> 0, colspan |-> FALSE, text |-> [fmt |-> "empty", d |-> None]]
    /\ current_date = None
    /\ rows_out = <<>>
    /\ good_date = None
    /\ g_date = None
    /\ g_rows = <<>>
    /\ raised = FALSE

\* A step of apmc_scraper.py leaves the other programs' variables alone.
RunFrame == UNCHANGED <<psVars, parseVars, upVars, normVars, auxVars>>

ZeroStats == [records_scraped |-> 0, records_upserted |-> 0, errors |-> 0,
              success |-> FALSE]

RowsOfCode(c) == {r \in Row : r.code = c}

\* ------------------------------------------- src/apmc_scraper.py: run()

Init ==
    /\ dbMeta \in {MetaNull, MetaEmpty, MetaOther}
    /\ store = {}
    /\ cfgMeta = MetaNull
    /\ resume_alias = FALSE
    /\ urlOk = TRUE
    /\ pc = "idle"
    /\ todo = <<>>
    /\ all_rows = <<>>
    /\ batch_i = 0
    /\ stats = ZeroStats
    /\ runs = 0
    /\ faults = 0
    /\ wm0 = NoResume
    /\ written = {}
    /\ fetched = [c \in Codes |-> <<>>]
    /\ failed = {}
    /\ attempted = {}
    /\ PSIdle
    /\ ParseIdle
    /\ UpIdle
    /\ NormIdle
    /\ DelayIdle /\ FetchIdle
    /\ AliasIdle /\ CleanIdle /\ DateIdle /\ OrchIdle

\* APMCOrchestrator.run_all loads the source row, ScraperFactory.create
\* builds the scraper around it, run() resets stats, reads the resume map
\* and calls fetch_commodities.
StartRun ==
    /\ pc \in {"idle", "done"}
    /\ runs < MaxRuns
    /\ runs' = runs + 1
    /\ cfgMeta' = dbMeta
    /\ resume_alias' = get_resume_alias(dbMeta)
    /\ urlOk' \in BOOLEAN
    /\ stats' = ZeroStats
    /\ all_rows' = <<>>
    /\ batch_i' = 0
    /\ wm0' = [c \in Codes |-> Wm(dbMeta, c)]
    /\ written' = {}
    /\ fetched' = [c \in Codes |-> <<>>]
    /\ failed' = {}
    /\ attempted' = {}
    /\ \/ \E cs \in Perms(Codes) : todo' = cs /\ pc' = "loop"
       \/ todo' = <<>> /\ pc' = "status"     \* fetch_commodities raises
    /\ UNCHANGED <<dbMeta, store, faults>>
    /\ RunFrame

\* One iteration of `for code, name in commodities.items()`.
\* fetch_commodity_prices raises (build_url): except branch, errors += 1.
CommodityRaises ==
    /\ pc = "loop" /\ todo # <<>>
    /\ ~urlOk
    /\ LET code == Head(todo) IN
       /\ failed' = failed \cup {code}
       /\ attempted' = attempted \cup {code}
    /\ stats' = [stats EXCEPT !.errors = @ + 1]
    /\ todo' = Tail(todo)
    /\ UNCHANGED <<dbMeta, store, cfgMeta, resume_alias, urlOk, pc, all_rows,
                   batch_i, runs, faults, wm0, written, fetched>>
    /\ RunFrame

\* The three requests of fetch_commodity_prices all fail (exception or a
\* response without rows): it returns [], which run() takes as no rows.
CommodityFetchFails ==
    /\ pc = "loop" /\ todo # <<>>
    /\ urlOk
    /\ LET code == Head(todo) IN
       /\ failed' = failed \cup {code}
       /\ attempted' = attempted \cup {code}
    /\ todo' = Tail(todo)
    /\ UNCHANGED <<dbMeta, store, cfgMeta, resume_alias, urlOk, pc, all_rows,
                   batch_i, stats, runs, faults, wm0, written, fetched>>
    /\ RunFrame

\* fetch_commodity_prices returns parsed rows; resume filter; accumulate;
\* _update_resume_point, whose database call succeeds (ok) or raises.
CommodityRows ==
    /\ pc = "loop" /\ todo # <<>>
    /\ urlOk
    /\ \E fr \in SeqsUpTo(RowsOfCode(Head(todo)), MaxRows), ok \in BOOLEAN :
        LET code == Head(todo)
            last_date == resume_get(resume_alias, cfgMeta, code)
            rows == resume_filter(fr, last_date)
            newest == SeqMax(Dates_of(rows))
        IN
        /\ fetched' = [fetched EXCEPT ![code] = fr]
        /\ attempted' = attempted \cup {code}
        /\ IF rows # <<>>
           THEN /\ all_rows' = all_rows \o rows
                /\ cfgMeta' = resume_point_cfg(cfgMeta, code, newest)
                /\ IF ok
                   THEN /\ dbMeta' = resume_point_meta(cfgMeta, code, newest)
                        /\ written' = written \cup {code}
                        /\ stats' = stats
                        /\ faults' = faults
                   ELSE /\ faults < MaxFaults
                        /\ faults' = faults + 1
                        /\ stats' = [stats EXCEPT !.errors = @ + 1]
                        /\ UNCHANGED <<dbMeta, written>>
           ELSE /\ ok
                /\ UNCHANGED <<all_rows, cfgMeta, dbMeta, written, stats,
                               faults>>
    /\ todo' = Tail(todo)
    /\ UNCHANGED <<store, resume_alias, urlOk, pc, batch_i, runs, wm0, failed>>
    /\ RunFrame

\* After the loop: records_scraped, then `if all_rows:`.
EndLoop ==
    /\ pc = "loop" /\ todo = <<>>
    /\ stats' = [stats EXCEPT !.records_scraped = Len(all_rows)]
    /\ pc' = IF all_rows # <<>> THEN "upsert" ELSE "status"
    /\ UNCHANGED <<dbMeta, store, cfgMeta, resume_alias, urlOk, todo, all_rows,
                   batch_i, runs, faults, wm0, written, fetched, failed,
                   attempted>>
    /\ RunFrame

\* _upsert: one store call of rows[i:i + batch]; after the last one run()
\* sets records_upserted and success.
UpsertBatchOk ==
    /\ pc = "upsert"
    /\ store' = UpsertRows(store, Slice(all_rows, batch_i, BatchSize))
    /\ batch_i' = batch_i + BatchSize
    /\ IF batch_i + BatchSize >= Len(all_rows)
       THEN /\ stats' = [stats EXCEPT !.records_upserted = Len(all_rows),
                                      !.success = TRUE]
            /\ pc' = "status"
       ELSE UNCHANGED <<stats, pc>>
    /\ UNCHANGED <<dbMeta, cfgMeta, resume_alias, urlOk, todo, all_rows, runs,
                   faults, wm0, written, fetched, failed, attempted>>
    /\ RunFrame

\* A store call raises: _upsert propagates, run()'s outer except logs it.
UpsertBatchRaises ==
    /\ pc = "upsert"
    /\ faults < MaxFaults
    /\ faults' = faults + 1
    /\ pc' = "status"
    /\ UNCHANGED <<dbMeta, store, cfgMeta, resume_alias, urlOk, todo, all_rows,
                   batch_i, stats, runs, wm0, written, fetched, failed,
                   attempted>>
    /\ RunFrame

\* Where run() stands after _update_source when the status write raised:
\* the exception leaves _update_source.
update_source_propagates(ok) == IF ok THEN "done" ELSE "raised"

\* Where run() stands after _update_source, whether the status write went
\* through (ok) or raised: `except Exception: pass`, run() returns stats.
update_source_returns(ok) == "done"

\* _update_source: the status write succeeds, or raises and is swallowed.
UpdateSource ==
    /\ pc = "status"
    /\ \E ok \in BOOLEAN :
          /\ IF ok
             THEN dbMeta' = update_source_meta(cfgMeta) /\ faults' = faults
             ELSE /\ faults < MaxFaults
                  /\ faults' = faults + 1
                  /\ dbMeta' = dbMeta
          /\ pc' = update_source_returns(ok)
    /\ UNCHANGED <<store, cfgMeta, resume_alias, urlOk, todo, all_rows, batch_i,
                   stats, runs, wm0, written, fetched, failed, attempted>>
    /\ RunFrame

Next ==
    \/ StartRun
    \/ CommodityRaises
    \/ CommodityFetchFails
    \/ CommodityRows
    \/ EndLoop
    \/ UpsertBatchOk
    \/ UpsertBatchRaises
    \/ UpdateSource

Spec == Init /\ [][Next]_vars


\* ------------------------- src/fetch_real_marketdata.py: process_source

\* A row of parse_msamb_table with its four numeric cells already through
\* clean_number: NoPrice for None, otherwise a price.  market 0 is the
\* empty string.
OptPrice == PriceVals \cup {NoPrice}

ParsedRow == [date : Dates, market : 0..NumMarkets,
              min : OptPrice, max : OptPrice, modal : OptPrice]

\* The parsed rows the runs of process_source are fed: every date, market
\* and modal price, min and max cells empty ("-").
PSRows == {r \in ParsedRow : r.market # 0 /\ r.min = NoPrice /\ r.max = NoPrice}

\* price_per_unit of process_source (lines 598-607).
price_per_unit(min_p, max_p, modal_p) ==
    IF modal_p # NoPrice THEN modal_p
    ELSE IF min_p # NoPrice /\ max_p # NoPrice THEN (min_p + max_p) \div 2
    ELSE IF min_p # NoPrice THEN min_p
    ELSE IF max_p # NoPrice THEN max_p
    ELSE NoPrice

\* spread of process_source (line 613).
ps_spread(min_p, max_p) ==
    IF min_p # NoPrice /\ max_p # NoPrice THEN max_p - min_p ELSE NoPrice

\* Whether process_source emits a payload for parsed row pr (lines 590, 610).
ps_emits(pr) ==
    /\ pr.date # None /\ pr.market # 0
    /\ LET ppu == price_per_unit(pr.min, pr.max, pr.modal) IN
       ppu # NoPrice /\ ppu > 0

\* The payload of parsed row pr of commodity code (lines 618-655).
ps_payload(code, pr) ==
    [code |-> code, date |-> pr.date, market |-> pr.market,
     min |-> pr.min, max |-> pr.max, modal |-> pr.modal,
     spread |-> ps_spread(pr.min, pr.max),
     price_per_unit |-> price_per_unit(pr.min, pr.max, pr.modal)]

\* The payloads of one commodity, in row order (lines 585-657).
RECURSIVE ps_payloads(_, _)
ps_payloads(code, prs) ==
    IF prs = <<>> THEN <<>>
    ELSE (IF ps_emits(Head(prs)) THEN <<ps_payload(code, Head(prs))>> ELSE <<>>)
         \o ps_payloads(code, Tail(prs))

ZeroSummary == [rows_fetched |-> 0, rows_upserted |-> 0, errors |-> <<>>,
                commodities_processed |-> 0]

\* A step of fetch_real_marketdata.py leaves the other programs' variables alone.
PSFrame == UNCHANGED <<runVars, parseVars, upVars, normVars, aliasVars,
                       cleanVars, dateVars, orchVars, fetchVars>>

RunIdle ==
    /\ dbMeta = MetaNull
    /\ cfgMeta = MetaNull
    /\ resume_alias = FALSE
    /\ urlOk = TRUE
    /\ all_rows = <<>>
    /\ stats = ZeroStats
    /\ runs = 0
    /\ faults = 0
    /\ wm0 = NoResume
    /\ written = {}
    /\ fetched = [c \in Codes |-> <<>>]
    /\ failed = {}
    /\ attempted = {}

InitPS ==
    /\ store = {}
    /\ pc = "idle"
    /\ todo = <<>>
    /\ batch_i = 0
    /\ PSIdle
    /\ RunIdle
    /\ ParseIdle
    /\ UpIdle
    /\ NormIdle
    /\ DelayIdle /\ FetchIdle
    /\ AliasIdle /\ CleanIdle /\ DateIdle /\ OrchIdle

\* process_source up to the loop: the commodity list is loaded; an empty
\* list (or a failed load) records "no_commodities" and returns.
PSStart ==
    /\ pc = "idle"
    /\ \E cs \in Perms(Codes) :
        /\ todo' = cs
        /\ IF cs = <<>>
           THEN /\ summary' = [summary EXCEPT !.errors = @ \o <<"no_commodities">>]
                /\ pc' = "done"
           ELSE /\ summary' = summary
                /\ pc' = "loop"
    /\ UNCHANGED <<store, batch_i, payloads_to_upsert, total, slept>>
    /\ PSFrame

\* One commodity whose fetch_text / post_text returns None: the error is
\* recorded and the loop continues.
PSEmptyResponse ==
    /\ pc = "loop" /\ todo # <<>>
    /\ summary' = [summary EXCEPT !.errors = @ \o <<"empty_response">>]
    /\ todo' = Tail(todo)
    /\ slept' = "continue"
    /\ UNCHANGED <<store, pc, batch_i, payloads_to_upsert, total>>
    /\ PSFrame

\* One commodity whose page parses to the rows prs: counted, normalised
\* and appended to payloads_to_upsert.
PSCommodity ==
    /\ pc = "loop" /\ todo # <<>>
    /\ \E prs \in SeqsUpTo(PSRows, MaxRows) :
        IF prs = <<>>
        THEN /\ UNCHANGED <<summary, payloads_to_upsert>>
             /\ slept' = "continue"
        ELSE /\ summary' = [summary EXCEPT
                              !.rows_fetched = @ + Len(prs),
                              !.commodities_processed = @ + 1]
             /\ payloads_to_upsert' =
                    payloads_to_upsert \o ps_payloads(Head(todo), prs)
             /\ slept' = "sleep"
    /\ todo' = Tail(todo)
    /\ UNCHANGED <<store, pc, batch_i, total>>
    /\ PSFrame

\* After the loop: `if payloads_to_upsert:` upsert_batch, else straight to
\* update_source_last_checked.
PSEndLoop ==
    /\ pc = "loop" /\ todo = <<>>
    /\ pc' = IF payloads_to_upsert # <<>> THEN "upsert" ELSE "status"
    /\ UNCHANGED <<store, todo, batch_i, payloads_to_upsert, summary, total,
                   slept>>
    /\ PSFrame

\* upsert_batch: the store call of one chunk succeeds.
PSChunkOk ==
    /\ pc = "upsert"
    /\ LET chunk == Slice(payloads_to_upsert, batch_i, BatchSize)
           last == batch_i + BatchSize >= Len(payloads_to_upsert)
       IN
       /\ store' = UpsertRows(store, chunk)
       /\ total' = total + Len(chunk)
       /\ batch_i' = batch_i + BatchSize
       /\ IF last
          THEN /\ summary' = [summary EXCEPT !.rows_upserted = total + Len(chunk)]
               /\ pc' = "status"
          ELSE UNCHANGED <<summary, pc>>
    /\ UNCHANGED <<todo, payloads_to_upsert, slept>>
    /\ PSFrame

\* upsert_batch: the store call of one chunk raises; logged, next chunk.
PSChunkFails ==
    /\ pc = "upsert"
    /\ LET last == batch_i + BatchSize >= Len(payloads_to_upsert) IN
       /\ batch_i' = batch_i + BatchSize
       /\ IF last
          THEN /\ summary' = [summary EXCEPT !.rows_upserted = total]
               /\ pc' = "status"
          ELSE UNCHANGED <<summary, pc>>
    /\ UNCHANGED <<store, todo, payloads_to_upsert, total, slept>>
    /\ PSFrame

\* update_source_last_checked (its failure is logged), return summary.
PSStatus ==
    /\ pc = "status"
    /\ pc' = "done"
    /\ UNCHANGED <<store, todo, batch_i, payloads_to_upsert, summary, total,
                   slept>>
    /\ PSFrame

NextPS ==
    \/ PSStart
    \/ PSEmptyResponse
    \/ PSCommodity
    \/ PSEndLoop
    \/ PSChunkOk
    \/ PSChunkFails
    \/ PSStatus

SpecPS == InitPS /\ [][NextPS]_vars


\* ------------------- src/fetch_real_marketdata.py: upsert_batch on its own

\* The payloads upsert_batch is handed: those process_source builds for the
\* first commodity from rows of the first NumUpsertDates dates.
UpRecords ==
    {ps_payload(1, pr) :
        pr \in {r \in PSRows : r.date <= NumUpsertDates /\ ps_emits(r)}}

UpKeys == {Key(r) : r \in UpRecords}

\* No record under a natural key.
NoRecord == <<>>

\* The states of market_prices: at most one record per natural key (the
\* table's unique constraint, which on_conflict names).
UpStores ==
    {st \in SUBSET UpRecords : \A s, t \in st : Key(s) = Key(t) => s = t}

\* The record stored last under each natural key once the rows of a store
\* call have been applied in list order.
RECURSIVE LastOf(_, _)
LastOf(lu, rows) ==
    IF rows = <<>> THEN lu
    ELSE LastOf([lu EXCEPT ![Key(Head(rows))] = Head(rows)], Tail(rows))

\* A step of upsert_batch leaves these variables alone.
UpFrame == UNCHANGED <<todo, payloads_to_upsert, summary, runVars, parseVars,
                       normVars, auxVars>>

InitUpsert ==
    /\ store \in UpStores
    /\ payloads_to_upsert \in SeqsUpTo(UpRecords, MaxUpsertLen)
    /\ pc = "idle"
    /\ todo = <<>>
    /\ batch_i = 0
    /\ total = 0
    /\ summary = ZeroSummary
    /\ returned = <<>>
    /\ store1 = {}
    /\ last_up = [k \in UpKeys |->
                    IF \E s \in store : Key(s) = k
                    THEN CHOOSE s \in store : Key(s) = k
                    ELSE NoRecord]
    /\ batches = <<>>
    /\ RunIdle
    /\ ParseIdle
    /\ NormIdle
    /\ DelayIdle /\ FetchIdle
    /\ AliasIdle /\ CleanIdle /\ DateIdle /\ OrchIdle

\* upsert_batch(payloads): `if not payloads: return 0`, else total = 0 and
\* the chunk loop starts.
UBCall ==
    /\ pc = "idle"
    /\ Len(returned) < UpsertCalls
    /\ IF payloads_to_upsert = <<>>
       THEN /\ returned' = Append(returned, 0)
            /\ store1' = IF returned = <<>> THEN store ELSE store1
            /\ UNCHANGED <<pc, total, batch_i>>
       ELSE /\ pc' = "upsert"
            /\ total' = 0
            /\ batch_i' = 0
            /\ UNCHANGED <<returned, store1>>
    /\ batches' = <<>>
    /\ UNCHANGED <<store, last_up>>
    /\ UpFrame

\* The store call of one chunk succeeds; after the last chunk the total is
\* returned.
UBChunkOk ==
    /\ pc = "upsert"
    /\ LET chunk == Slice(payloads_to_upsert, batch_i, BatchSize)
           last == batch_i + BatchSize >= Len(payloads_to_upsert)
       IN
       /\ store' = UpsertRows(store, chunk)
       /\ last_up' = LastOf(last_up, chunk)
       /\ batches' = Append(batches, chunk)
       /\ total' = total + Len(chunk)
       /\ batch_i' = batch_i + BatchSize
       /\ IF last
          THEN /\ returned' = Append(returned, total + Len(chunk))
               /\ store1' = IF returned = <<>> THEN store' ELSE store1
               /\ pc' = "idle"
          ELSE UNCHANGED <<returned, store1, pc>>
    /\ UpFrame

\* The store call of one chunk raises; logged, next chunk.
UBChunkFails ==
    /\ pc = "upsert"
    /\ LET last == batch_i + BatchSize >= Len(payloads_to_upsert) IN
       /\ batch_i' = batch_i + BatchSize
       /\ batches' = Append(batches,
                            Slice(payloads_to_upsert, batch_i, BatchSize))
       /\ IF last
          THEN /\ returned' = Append(returned, total)
               /\ store1' = IF returned = <<>> THEN store ELSE store1
               /\ pc' = "idle"
          ELSE UNCHANGED <<returned, store1, pc>>
    /\ UNCHANGED <<store, last_up, total>>
    /\ UpFrame

NextUpsert ==
    \/ UBCall
    \/ UBChunkOk
    \/ UBChunkFails

SpecUpsert == InitUpsert /\ [][NextUpsert]_vars


\* ------------------------------------------- src/msamb_scraper.py: run()

\* _update_source_status: the metadata sent is the run's status alone.
ms_update_source_status_meta ==
    [kind |-> "dict", keys |-> {"last_run"}, resume |-> NoResume]

\* A step of msamb_scraper.py leaves these variables alone.
MSFrame == UNCHANGED <<cfgMeta, resume_alias, runs, faults, wm0, written,
                       failed, payloads_to_upsert, summary, parseVars,
                       upVars, normVars, auxVars>>

InitMS ==
    /\ dbMeta \in {MetaNull, MetaOther}
    /\ store = {}
    /\ pc = "idle"
    /\ todo = <<>>
    /\ batch_i = 0
    /\ cfgMeta = MetaNull
    /\ resume_alias = FALSE
    /\ urlOk = TRUE
    /\ all_rows = <<>>
    /\ stats = ZeroStats
    /\ runs = 0
    /\ faults = 0
    /\ wm0 = NoResume
    /\ written = {}
    /\ fetched = [c \in Codes |-> <<>>]
    /\ failed = {}
    /\ attempted = {}
    /\ PSIdle
    /\ ParseIdle
    /\ UpIdle
    /\ NormIdle
    /\ DelayIdle /\ FetchIdle
    /\ AliasIdle /\ CleanIdle /\ DateIdle /\ OrchIdle

\* run() up to the loop: fetch_commodities returns the commodity dict; an
\* empty dict returns the stats at once, an exception goes to the outer
\* except; neither reaches _update_source_status.
MSStart ==
    /\ pc = "idle"
    /\ urlOk' \in BOOLEAN
    /\ \/ \E cs \in Perms(Codes) :
            /\ todo' = cs
            /\ pc' = IF cs = <<>> THEN "done" ELSE "loop"
       \/ todo' = <<>> /\ pc' = "done"       \* fetch_commodities raises
    /\ UNCHANGED <<dbMeta, store, batch_i, all_rows, stats, fetched, attempted,
                   total>>
    /\ MSFrame

\* One iteration of `for code, name in commodities.items()`:
\* fetch_commodity_prices returns the parsed records ([] when the request
\* failed), they are normalised and appended, then time.sleep of the
\* configured delay, which raises into the except branch (errors += 1)
\* when the configuration holds no valid delay.
MSCommodity ==
    /\ pc = "loop" /\ todo # <<>>
    /\ \E fr \in SeqsUpTo(RowsOfCode(Head(todo)), MaxRows) :
        /\ fetched' = [fetched EXCEPT ![Head(todo)] = fr]
        /\ all_rows' = all_rows \o fr
    /\ attempted' = attempted \cup {Head(todo)}
    /\ stats' = IF urlOk THEN stats ELSE [stats EXCEPT !.errors = @ + 1]
    /\ todo' = Tail(todo)
    /\ UNCHANGED <<dbMeta, store, pc, batch_i, urlOk, total>>
    /\ MSFrame

\* After the loop: records_scraped, then `if all_records:`.
MSEndLoop ==
    /\ pc = "loop" /\ todo = <<>>
    /\ stats' = [stats EXCEPT !.records_scraped = Len(all_rows)]
    /\ pc' = IF all_rows # <<>> THEN "upsert" ELSE "status"
    /\ UNCHANGED <<dbMeta, store, todo, batch_i, urlOk, all_rows, fetched,
                   attempted, total>>
    /\ MSFrame

\* _upsert_records: the store call of one batch succeeds; after the last
\* batch run() sets records_upserted to the returned total and success.
MSBatchOk ==
    /\ pc = "upsert"
    /\ LET batch == Slice(all_rows, batch_i, BatchSize)
           last == batch_i + BatchSize >= Len(all_rows)
       IN
       /\ store' = UpsertRows(store, batch)
       /\ total' = total + Len(batch)
       /\ batch_i' = batch_i + BatchSize
       /\ IF last
          THEN /\ stats' = [stats EXCEPT
                              !.records_upserted = total + Len(batch),
                              !.success = TRUE]
               /\ pc' = "status"
          ELSE UNCHANGED <<stats, pc>>
    /\ UNCHANGED <<dbMeta, todo, urlOk, all_rows, fetched, attempted>>
    /\ MSFrame

\* _upsert_records: the store call of one batch raises; logged, next batch.
MSBatchFails ==
    /\ pc = "upsert"
    /\ LET last == batch_i + BatchSize >= Len(all_rows) IN
       /\ batch_i' = batch_i + BatchSize
       /\ IF last
          THEN /\ stats' = [stats EXCEPT !.records_upserted = total,
                                         !.success = TRUE]
               /\ pc' = "status"
          ELSE UNCHANGED <<stats, pc>>
    /\ UNCHANGED <<dbMeta, store, todo, urlOk, all_rows, fetched, attempted,
                   total>>
    /\ MSFrame

\* _update_source_status: the write succeeds, or raises and is swallowed.
MSStatus ==
    /\ pc = "status"
    /\ dbMeta' \in {ms_update_source_status_meta, dbMeta}
    /\ pc' = "done"
    /\ UNCHANGED <<store, todo, batch_i, urlOk, all_rows, stats, fetched,
                   attempted, total>>
    /\ MSFrame

NextMS ==
    \/ MSStart
    \/ MSCommodity
    \/ MSEndLoop
    \/ MSBatchOk
    \/ MSBatchFails
    \/ MSStatus

SpecMS == InitMS /\ [][NextMS]_vars


\* ------------------------------------ normalisation of one parsed row

\* Python truthiness of an optional number: None and 0.0 are falsy.
PyTruthy(p) == p # NoPrice /\ p # 0

\* normalize_record of apmc_scraper.py:
\* r.get("modal_price") or r.get("max_price") or 0
ap_price_per_unit(max_p, modal_p) ==
    IF PyTruthy(modal_p) THEN modal_p
    ELSE IF PyTruthy(max_p) THEN max_p
    ELSE 0

\* r["max_price"] - r["min_price"] if r.get("min_price") and
\* r.get("max_price") else None
ap_spread(min_p, max_p) ==
    IF PyTruthy(min_p) /\ PyTruthy(max_p) THEN max_p - min_p ELSE NoPrice

\* normalize_record of msamb_scraper.py:
\* raw_record.get('modal_price') or raw_record.get('max_price')
ms_price_per_unit(max_p, modal_p) ==
    IF PyTruthy(modal_p) THEN modal_p ELSE max_p

\* _calculate_spread: `if min_p and max_p: return max_p - min_p`
ms_calculate_spread(min_p, max_p) ==
    IF PyTruthy(min_p) /\ PyTruthy(max_p) THEN max_p - min_p ELSE NoPrice

\* normalize_record of apmc_scraper.py / msamb_scraper.py applied to the
\* row r of commodity code; every row of the parser is normalised.
ap_normalize_record(code, r) ==
    [code |-> code, date |-> r.date, market |-> r.market,
     min |-> r.min, max |-> r.max, modal |-> r.modal,
     spread |-> ap_spread(r.min, r.max),
     price_per_unit |-> ap_price_per_unit(r.max, r.modal)]

ms_normalize_record(code, r) ==
    [code |-> code, date |-> r.date, market |-> r.market,
     min |-> r.min, max |-> r.max, modal |-> r.modal,
     spread |-> ms_calculate_spread(r.min, r.max),
     price_per_unit |-> ms_price_per_unit(r.max, r.modal)]

\* A normalisation step leaves these variables alone.
NormFrame == UNCHANGED <<sharedVars, runVars, psVars, parseVars, upVars, raw,
                         auxVars>>

\* One parsed row of the first commodity: any date and market (0: empty
\* text), each price cell cleaned to a number or to None.
InitNorm ==
    /\ raw \in ParsedRow
    /\ norm = NoNorm
    /\ store = {}
    /\ pc = "idle"
    /\ todo = <<>>
    /\ batch_i = 0
    /\ RunIdle
    /\ PSIdle
    /\ ParseIdle
    /\ UpIdle
    /\ DelayIdle /\ FetchIdle
    /\ AliasIdle /\ CleanIdle /\ DateIdle /\ OrchIdle

\* process_source (fetch_real_marketdata.py) normalises the row: skipped,
\* or a payload appended.
NormFetchReal ==
    /\ norm = NoNorm
    /\ norm' = [by |-> "fetch_real", emitted |-> ps_emits(raw),
                rec |-> IF ps_emits(raw) THEN ps_payload(1, raw) ELSE <<>>]
    /\ NormFrame

\* run() of msamb_scraper.py normalises the row.
NormMsamb ==
    /\ norm = NoNorm
    /\ norm' = [by |-> "msamb", emitted |-> TRUE,
                rec |-> ms_normalize_record(1, raw)]
    /\ NormFrame

\* run() of apmc_scraper.py normalises the row.
NormApmc ==
    /\ norm = NoNorm
    /\ norm' = [by |-> "apmc", emitted |-> TRUE,
                rec |-> ap_normalize_record(1, raw)]
    /\ NormFrame

NextNorm ==
    \/ NormFetchReal
    \/ NormMsamb
    \/ NormApmc

SpecNorm == InitNorm /\ [][NextNorm]_vars


\* ------------- src/fetch_real_marketdata.py: the global commodity code

\* The keys of an alias mapping: str(code) of a source commodity code, or
\* the lower-cased display name of the commodity.
AliasKeys == [kind : {"code", "name"}, c : Codes]

\* A code is written as a pair of a prefix and a number: <<"G", 1>> for
\* "G1", <<"MSAMB", 2>> for "MSAMB_2".
\* commodity_master.global_code: a code, or null / empty.
GlobalCodes == {<<"G", 1>>, <<"G", 2>>}
NullCode == <<"", 0>>

\* dict.get of a key the mapping does not hold.
NoAlias == <<"<absent>", 0>>

\* The mappings load_commodity_alias_map can build for a source.
AliasTables == [AliasKeys -> GlobalCodes \cup {NullCode, NoAlias}]

\* The mapping of the except branch: {}.
EmptyAliasMap == [k \in AliasKeys |-> NoAlias]

\* src.get('organization'): a tag, or missing ("").
Orgs == {"msamb", ""}

\* (src.get('organization') or 'SRC').upper()
OrgUpper(org) == IF org = "" THEN "SRC" ELSE "MSAMB"

\* f"{ORG}_{code}"
synthetic_code(org, code) == <<OrgUpper(org), code>>

\* alias_map.get(code)
alias_get(map, code) == map[[kind |-> "code", c |-> code]]

\* The lookup alone, without the synthetic code.
lookup_global_code(map, org, code) == alias_get(map, code)

\* global_code = alias_map.get(code) or f"{ORG}_{code}"
resolve_global_code(map, org, code) ==
    IF alias_get(map, code) \notin {NoAlias, NullCode}
    THEN alias_get(map, code)
    ELSE synthetic_code(org, code)

\* A step of the resolution leaves these variables alone.
AliasFrame == UNCHANGED <<store, todo, batch_i, runVars, psVars, parseVars,
                          upVars, normVars, cleanVars, dateVars, orchVars,
                          delayVars, fetchVars, aliases, organization>>

InitAlias ==
    /\ aliases \in AliasTables
    /\ organization \in Orgs
    /\ alias_map = <<>>
    /\ global_code = <<>>
    /\ store = {}
    /\ pc = "idle"
    /\ todo = <<>>
    /\ batch_i = 0
    /\ RunIdle
    /\ PSIdle
    /\ ParseIdle
    /\ UpIdle
    /\ NormIdle
    /\ DelayIdle /\ FetchIdle
    /\ CleanIdle /\ DateIdle /\ OrchIdle

\* load_commodity_alias_map: the mapping built from commodity_master, or
\* {} when the query raises.
LoadAliasMap ==
    /\ pc = "idle"
    /\ alias_map' \in {aliases, EmptyAliasMap}
    /\ pc' = "loop"
    /\ UNCHANGED global_code
    /\ AliasFrame

\* process_source resolves the global code of one commodity's payload.
ResolveGlobalCode ==
    /\ pc = "loop"
    /\ \E code \in Codes :
        global_code' =
            [code |-> code,
             gc |-> resolve_global_code(alias_map, organization, code)]
    /\ pc' = "done"
    /\ UNCHANGED alias_map
    /\ AliasFrame

NextAlias ==
    \/ LoadAliasMap
    \/ ResolveGlobalCode

SpecAlias == InitAlias /\ [][NextAlias]_vars


\* ------------------------------------------------- the numeric cleaners

\* A cell text is a sequence of characters: the digits "1" and "0", the
\* dot, the minus sign, the space, and "A" for any other character (a
\* letter, a slash, a comma, a currency sign, an em-dash).
Chars == {"1", "0", ".", "-", " ", "A"}
Digits == {"1", "0"}

\* Python None handed in place of a text.
NullText == <<"None">>

CellTexts == SeqsUpTo(Chars, MaxTextLen)

\* str.strip(): leading and trailing spaces removed.
RECURSIVE LStrip(_)
LStrip(s) == IF s # <<>> /\ Head(s) = " " THEN LStrip(Tail(s)) ELSE s

RECURSIVE RStrip(_)
RStrip(s) ==
    IF s # <<>> /\ s[Len(s)] = " " THEN RStrip(SubSeq(s, 1, Len(s) - 1)) ELSE s

Strip(s) == RStrip(LStrip(s))

\* re.sub(r"[^...]", "", s): the characters of the set kept.
Keep(s, set) == SelectSeq(s, LAMBDA c : c \in set)

\* Whether float(t) accepts the token t over digits, dot and minus: an
\* optional leading minus, then digits with at most one dot and at least
\* one digit.  Anything else is a ValueError.
IsFloat(t) ==
    LET body == IF t # <<>> /\ Head(t) = "-" THEN Tail(t) ELSE t IN
    /\ Keep(body, {"-"}) = <<>>
    /\ Len(Keep(body, {"."})) <= 1
    /\ Keep(body, Digits) # <<>>

\* The sign of float(t): 0 when no digit differs from 0 (-0.0 >= 0 holds).
FloatSign(t) ==
    IF Keep(t, {"1"}) = <<>> THEN 0
    ELSE IF Head(t) = "-" THEN -1 ELSE 1

NumNone(by) == [by |-> by, kind |-> "none", sign |-> 0]
NumRaise(by) == [by |-> by, kind |-> "raise", sign |-> 0]
NumValue(by, t) == [by |-> by, kind |-> "num", sign |-> FloatSign(t)]

\* The texts clean_number returns None for without cleaning them:
\* "", "--", "-", an em-dash, "NA", "N/A", "n/a".
fr_sentinels == {<<>>, <<"-", "-">>, <<"-">>, <<"A">>, <<"A", "A">>,
                 <<"A", "A", "A">>}

\* clean_number (fetch_real_marketdata.py)
clean_number(s) ==
    IF s = NullText THEN NumNone("fetch_real")
    ELSE LET st == Strip(s)
             cleaned == Keep(Keep(st, Chars \ {" "}), Digits \cup {".", "-"})
         IN
         IF st \in fr_sentinels THEN NumNone("fetch_real")
         ELSE IF cleaned \in {<<>>, <<".">>, <<"-">>} THEN NumNone("fetch_real")
         ELSE IF ~IsFloat(cleaned) THEN NumNone("fetch_real")
         ELSE IF FloatSign(cleaned) < 0 THEN NumNone("fetch_real")
         ELSE NumValue("fetch_real", cleaned)

\* MSAMBScraper._clean_numeric (msamb_scraper.py), on get_text(strip=True)
clean_numeric(s) ==
    LET value == Strip(s)
        cleaned == Keep(value, Digits \cup {"."})
    IN
    IF value = <<>> \/ value = <<"-">> THEN NumNone("msamb")
    ELSE IF cleaned = <<>> THEN NumNone("msamb")
    ELSE IF ~IsFloat(cleaned) THEN NumNone("msamb")
    ELSE NumValue("msamb", cleaned)

\* MSAMBScraper._num (apmc_scraper.py), on tds[i].text
num(s) ==
    LET v == Keep(s, Digits \cup {"."}) IN
    IF v = <<>> THEN NumNone("apmc")
    ELSE IF ~IsFloat(v) THEN NumRaise("apmc")
    ELSE NumValue("apmc", v)

\* A step of a cleaner leaves these variables alone.
CleanFrame == UNCHANGED <<sharedVars, runVars, psVars, parseVars, upVars,
                          normVars, aliasVars, dateVars, orchVars, delayVars,
                          fetchVars, num_text>>

InitClean ==
    /\ num_text \in CellTexts \cup {NullText}
    /\ num_out = NumNone("none")
    /\ store = {}
    /\ pc = "idle"
    /\ todo = <<>>
    /\ batch_i = 0
    /\ RunIdle
    /\ PSIdle
    /\ ParseIdle
    /\ UpIdle
    /\ NormIdle
    /\ DelayIdle /\ FetchIdle
    /\ AliasIdle /\ DateIdle /\ OrchIdle

\* process_source cleans the cell with clean_number.
CleanNumber ==
    /\ num_out.by = "none"
    /\ num_out' = clean_number(num_text)
    /\ CleanFrame

\* _parse_msamb_html cleans the cell (always a text) with _clean_numeric.
CleanNumeric ==
    /\ num_out.by = "none"
    /\ num_text # NullText
    /\ num_out' = clean_numeric(num_text)
    /\ CleanFrame

\* _parse of apmc_scraper.py cleans the cell (always a text) with _num.
Num ==
    /\ num_out.by = "none"
    /\ num_text # NullText
    /\ num_out' = num(num_text)
    /\ CleanFrame

NextClean ==
    \/ CleanNumber
    \/ CleanNumeric
    \/ Num

SpecClean == InitClean /\ [][NextClean]_vars


\* ---------------------------------------------- the date parsers, by field

\* A date text by its fields:
\*   num4  "dd<sep>mm<sep>yyyy"      num2  "dd<sep>mm<sep>yy"
\*   text  "dd Mon yyyy", Mon the name of month m
\* with d and m written as numbers of two digits.
Seps == {"/", "-", ".", " "}
Years4 == {2023, 2024}
Years2 == {24, 69, 70, 99}

DateTexts ==
    [fmt : {"num4"}, sep : Seps, d : 1..MaxDay, m : 1..MaxMonth, y : Years4]
    \cup [fmt : {"num2"}, sep : Seps, d : 1..MaxDay, m : 1..MaxMonth, y : Years2]
    \cup [fmt : {"text"}, sep : {" "}, d : 1..MaxDay, m : 1..MaxMonth, y : Years4]

Leap(y) == (y % 4 = 0 /\ y % 100 # 0) \/ y % 400 = 0

DaysIn(m, y) ==
    IF m \in {1, 3, 5, 7, 8, 10, 12} THEN 31
    ELSE IF m \in {4, 6, 9, 11} THEN 30
    ELSE IF m = 2 THEN (IF Leap(y) THEN 29 ELSE 28)
    ELSE 0

\* Whether datetime.date(y, m, d) exists (ValueError otherwise).
ValidDate(y, m, d) == m \in 1..12 /\ d \in 1..DaysIn(m, y) /\ y \in 1..9999

DateNone(by) == [by |-> by, kind |-> "none", y |-> 0, m |-> 0, d |-> 0]
DateToday(by) == [by |-> by, kind |-> "today", y |-> 0, m |-> 0, d |-> 0]
DateOf(by, y, m, d) == [by |-> by, kind |-> "date", y |-> y, m |-> m, d |-> d]

\* The pivot that takes every 2-digit year into 2000..2099.
pivot_year_2000(yy) == 2000 + yy

\* y = 2000 + y if y < 70 else 1900 + y
pivot_year(yy) == IF yy < 70 THEN 2000 + yy ELSE 1900 + yy

\* parse_date_string, first clause: D sep M sep YYYY with sep / - or .
pds_clause1(t) ==
    IF t.fmt = "num4" /\ t.sep \in {"/", "-", "."} /\ ValidDate(t.y, t.m, t.d)
    THEN DateOf("fetch_real", t.y, t.m, t.d)
    ELSE DateNone("fetch_real")

\* second clause: D Mon YYYY through strptime %d %b %Y / %d %B %Y
pds_clause2(t) ==
    IF t.fmt = "text" /\ ValidDate(t.y, t.m, t.d)
    THEN DateOf("fetch_real", t.y, t.m, t.d)
    ELSE DateNone("fetch_real")

\* third clause: D sep M sep YY followed by a word boundary, pivoted
pds_clause3(t) ==
    IF /\ t.fmt = "num2" /\ t.sep \in {"/", "-", "."}
       /\ ValidDate(pivot_year(t.y), t.m, t.d)
    THEN DateOf("fetch_real", pivot_year(t.y), t.m, t.d)
    ELSE DateNone("fetch_real")

\* parse_date_string on a text given by its fields: the clauses in order,
\* the first date wins.
parse_date_fields(t) ==
    IF pds_clause1(t).kind = "date" THEN pds_clause1(t)
    ELSE IF pds_clause2(t).kind = "date" THEN pds_clause2(t)
    ELSE pds_clause3(t)

\* MSAMBScraper.parse_date (msamb_scraper.py): strptime %d/%m/%Y, today's
\* date on any failure.
parse_date(t) ==
    IF t.fmt = "num4" /\ t.sep = "/" /\ ValidDate(t.y, t.m, t.d)
    THEN DateOf("msamb", t.y, t.m, t.d)
    ELSE DateToday("msamb")

\* A step of a date parser leaves these variables alone.
DateFrame == UNCHANGED <<sharedVars, runVars, psVars, parseVars, upVars,
                         normVars, aliasVars, cleanVars, orchVars, delayVars,
                         fetchVars, date_text>>

InitDate ==
    /\ date_text \in DateTexts
    /\ date_out = DateNone("none")
    /\ store = {}
    /\ pc = "idle"
    /\ todo = <<>>
    /\ batch_i = 0
    /\ RunIdle
    /\ PSIdle
    /\ ParseIdle
    /\ UpIdle
    /\ NormIdle
    /\ DelayIdle /\ FetchIdle
    /\ AliasIdle /\ CleanIdle /\ OrchIdle

\* parse_msamb_table hands the text to parse_date_string.
ParseDateString ==
    /\ date_out.by = "none"
    /\ date_out' = parse_date_fields(date_text)
    /\ DateFrame

\* _parse_msamb_html hands the text to parse_date.
ParseDate ==
    /\ date_out.by = "none"
    /\ date_out' = parse_date(date_text)
    /\ DateFrame

NextDate ==
    \/ ParseDateString
    \/ ParseDate

SpecDate == InitDate /\ [][NextDate]_vars


\* ------------------------------------------------------ the table parsers

\* The text of a row's first cell, by what the date parsers make of it:
\*   slash  "DD/MM/YYYY" of date d       dash   "DD-MM-YYYY" of date d
\*   space  "DD MM YYYY" of date d       bad    text holding no date
\*   empty  ""
DateFmts == {"slash", "dash", "space"}
Texts == [fmt : DateFmts, d : Dates] \cup [fmt : {"bad", "empty"}, d : {None}]

\* A <tr>: its number of <td> cells, whether the first cell carries a
\* colspan attribute, and the first cell's text.
NoCells == [n |-> 0, colspan |-> FALSE, text |-> [fmt |-> "empty", d |-> None]]
TRow == {NoCells} \cup [n : {1, 3, 7}, colspan : BOOLEAN, text : Texts]

\* parse_date_string (fetch_real_marketdata.py): separators / - . only.
parse_date_string(t) == IF t.fmt \in {"slash", "dash"} THEN t.d ELSE None

\* re.search(r"(\d{1,2}[\/\-\s]\d{1,2}[\/\-\s]\d{2,4})", date_text): the
\* date-like substring of parse_msamb_table's second attempt, handed to
\* parse_date_string again.
date_substring_parse(t) ==
    IF t.fmt \in DateFmts THEN parse_date_string(t) ELSE None

\* datetime.strptime(text, "%d/%m/%Y"): None stands for ValueError.
strptime_dmy(t) == IF t.fmt = "slash" THEN t.d ELSE None

\* MSAMBScraper.parse_date (msamb_scraper.py): today's date on failure.
msamb_parse_date(t, tdy) == IF strptime_dmy(t) # None THEN strptime_dmy(t) ELSE tdy

\* ---- parse_msamb_table (fetch_real_marketdata.py)
\* len(tds) == 1 or (len(tds) >= 1 and tds[0].has_attr("colspan"))
fr_is_date_row(r) == r.n = 1 \/ (r.n >= 1 /\ r.colspan)

\* parse_date_string(date_text), then the date-like substring.
fr_parsed_date(t) ==
    IF parse_date_string(t) # None THEN parse_date_string(t)
    ELSE date_substring_parse(t)

\* current_date is assigned only `if parsed:`.
fr_date_after(r, cur) ==
    IF fr_parsed_date(r.text) # None THEN fr_parsed_date(r.text) ELSE cur

\* ---- MSAMBScraper._parse_msamb_html (msamb_scraper.py)
\* len(tds) == 1 or (len(tds) >= 7 and 'colspan' in tds[0].attrs)
ms_is_date_row(r) == r.n = 1 \/ (r.n >= 7 /\ r.colspan)

\* The date strptime reads from the text; an empty text is not parsed.
ms_parsed_date(t) == IF t.fmt = "empty" THEN None ELSE strptime_dmy(t)

\* if date_text: current_date = self.parse_date(date_text)
ms_date_after(r, cur, tdy) ==
    IF r.text.fmt # "empty" THEN msamb_parse_date(r.text, tdy) ELSE cur

\* ---- MSAMBScraper._parse (apmc_scraper.py)
\* len(tds) == 1
ap_is_date_row(r) == r.n = 1

\* try: current_date = strptime(...) / except Exception: continue
ap_date_after(r, cur) ==
    IF strptime_dmy(r.text) # None THEN strptime_dmy(r.text) ELSE cur

\* ---- parse_generic_table_with_mapping (fetch_real_marketdata.py), called
\* with the fixed layout as mapping (market 0 .. modal_price 6) and neither
\* date_selector nor row_selector.  The tables read hold <td> cells only,
\* so that find_all(["td", "th"]) finds the cells find_all("td") finds.
\* len(cols) == 1 and (colspan or the text holds a date-like pattern)
gen_is_date_row(r) == r.n = 1 /\ (r.colspan \/ r.text.fmt \in DateFmts)

\* maybe = parse_date_string(text); current_date assigned only `if maybe:`.
gen_date_after(r, cur) ==
    IF parse_date_string(r.text) # None THEN parse_date_string(r.text) ELSE cur

\* mapping and current_date and len(cols) > max(mapping.values())
gen_is_emitted(r, cur) == cur # None /\ r.n > 6

\* Whether the parser of file v takes row r as a date row.
IsDateRow(v, r) ==
    CASE v = "fetch_real" -> fr_is_date_row(r)
      [] v = "msamb" -> ms_is_date_row(r)
      [] v = "apmc" -> ap_is_date_row(r)

\* The date the parser of file v reads from a date row's text without any
\* fallback, None when the text does not parse.
ParsedDate(v, t) ==
    CASE v = "fetch_real" -> fr_parsed_date(t)
      [] v = "msamb" -> ms_parsed_date(t)
      [] v = "apmc" -> strptime_dmy(t)

\* current_date after the parser of file v has read date row r.
DateAfter(v, r, cur, tdy) ==
    CASE v = "fetch_real" -> fr_date_after(r, cur)
      [] v = "msamb" -> ms_date_after(r, cur, tdy)
      [] v = "apmc" -> ap_date_after(r, cur)

\* Whether a row that is no date row is appended to the output: in all
\* three parsers `len(tds) >= 7 and current_date`.
IsEmitted(r, cur) == r.n >= 7 /\ cur # None

\* A step of a table parser leaves the other programs' variables alone.
ParseFrame == UNCHANGED <<sharedVars, runVars, psVars, upVars, normVars,
                         auxVars>>

InitParse ==
    /\ variant \in {"fetch_real", "msamb", "apmc"}
    /\ today \in Dates
    /\ row_i = 0
    /\ last_row = NoCells
    /\ current_date = None
    /\ rows_out = <<>>
    /\ good_date = None
    /\ store = {}
    /\ pc = "idle"
    /\ todo = <<>>
    /\ batch_i = 0
    /\ RunIdle
    /\ PSIdle
    /\ UpIdle
    /\ NormIdle
    /\ DelayIdle /\ FetchIdle
    /\ AliasIdle /\ CleanIdle /\ DateIdle /\ OrchIdle
    /\ g_date = None
    /\ g_rows = <<>>
    /\ raised = FALSE

\* One iteration of `for tr in soup.find_all("tr")` over row r.
ReadRow(r) ==
    /\ row_i' = row_i + 1
    /\ last_row' = r
    /\ IF IsDateRow(variant, r)
       THEN /\ current_date' = DateAfter(variant, r, current_date, today)
            /\ good_date' = IF ParsedDate(variant, r.text) # None
                            THEN ParsedDate(variant, r.text) ELSE good_date
            /\ rows_out' = rows_out
       ELSE /\ rows_out' = IF IsEmitted(r, current_date)
                           THEN Append(rows_out, [date |-> current_date,
                                                  src |-> row_i + 1])
                           ELSE rows_out
            /\ UNCHANGED <<current_date, good_date>>
    /\ UNCHANGED <<variant, today, raised>>
    /\ ParseFrame

\* One iteration of parse_generic_table_with_mapping's row loop over row r.
GenericReadRow(r) ==
    IF r.n = 0
    THEN UNCHANGED <<g_date, g_rows>>
    ELSE IF gen_is_date_row(r)
    THEN /\ g_date' = gen_date_after(r, g_date)
         /\ g_rows' = g_rows
    ELSE /\ g_rows' = IF gen_is_emitted(r, g_date)
                      THEN Append(g_rows, [date |-> g_date, src |-> row_i + 1])
                      ELSE g_rows
         /\ g_date' = g_date

\* parse_msamb_table and parse_generic_table_with_mapping
\* (fetch_real_marketdata.py) reading the same table.
ParseRowFetchReal ==
    /\ variant = "fetch_real" /\ row_i < MaxTableRows
    /\ \E r \in TRow : ReadRow(r) /\ GenericReadRow(r)

\* MSAMBScraper._parse_msamb_html (msamb_scraper.py)
ParseRowMsamb ==
    /\ variant = "msamb" /\ row_i < MaxTableRows
    /\ \E r \in TRow : ReadRow(r)
    /\ UNCHANGED <<g_date, g_rows>>

\* MSAMBScraper._parse (apmc_scraper.py)
ParseRowApmc ==
    /\ variant = "apmc" /\ row_i < MaxTableRows /\ ~raised
    /\ \E r \in TRow : ReadRow(r)
    /\ UNCHANGED <<g_date, g_rows>>

\* MSAMBScraper._parse (apmc_scraper.py) over a row of 7 or more cells one
\* of whose numeric cells is left by _num's re.sub as a text float() does
\* not read ('.', '1.2.3'): float raises ValueError inside the dict
\* literal, _parse is left without returning its rows, and
\* fetch_commodity_prices catches the exception on each of its three
\* attempts and returns [].
ParseRowApmcNumRaises ==
    /\ variant = "apmc" /\ row_i < MaxTableRows /\ ~raised
    /\ \E r \in TRow :
          /\ ~ap_is_date_row(r)
          /\ IsEmitted(r, current_date)
          /\ row_i' = row_i + 1
          /\ last_row' = r
    /\ rows_out' = <<>>
    /\ raised' = TRUE
    /\ UNCHANGED <<variant, today, current_date, good_date, g_date, g_rows>>
    /\ ParseFrame

NextParse ==
    \/ ParseRowFetchReal
    \/ ParseRowMsamb
    \/ ParseRowApmc
    \/ ParseRowApmcNumRaises

SpecParse == InitParse /\ [][NextParse]_vars


\* ------------------------------ the loops over the active sources:
\* main (fetch_real_marketdata.py), APMCOrchestrator.run_all_scrapers
\* (msamb_scraper.py), APMCOrchestrator.run_all (apmc_scraper.py)

\* What the run of one source comes to: records upserted, a run that
\* upserts nothing, or an exception leaving the scraper's construction or
\* its run.
Outcomes == {"ok", "zero", "raises"}

\* The index the loop stands at once source i + 1 of n has had the outcome
\* out: the body is a try whose `except Exception` logs (and, in
\* run_all_scrapers, continues), so the for loop goes on to the next source.
after_try_unguarded(i, out, n) == IF out = "raises" THEN n ELSE i + 1

after_try(i, out, n) == i + 1

\* What main appends to overall: the summary, or the error dict of the
\* except branch.
main_result(out) == IF out = "raises" THEN <<"errors">> ELSE <<out>>

\* What run_all_scrapers appends to results: stats, nothing on an exception.
run_all_scrapers_result(out) == IF out = "raises" THEN <<>> ELSE <<out>>

\* What run_all appends to results: stats, or {"success": False}.
run_all_result(out) == IF out = "raises" THEN <<"failed">> ELSE <<out>>

OrchFrame == UNCHANGED <<store, todo, batch_i, runVars, psVars, parseVars,
                         upVars, normVars, aliasVars, cleanVars, dateVars,
                         delayVars, fetchVars>>

InitOrch ==
    /\ orch \in {"fetch_real", "msamb", "apmc"}
    /\ sources \in SeqsUpTo(Outcomes, MaxSources)
    /\ src_i = 0
    /\ ran = [i \in 1..Len(sources) |-> 0]
    /\ results = <<>>
    /\ store = {}
    /\ pc = "idle"
    /\ todo = <<>>
    /\ batch_i = 0
    /\ RunIdle
    /\ PSIdle
    /\ ParseIdle
    /\ UpIdle
    /\ NormIdle
    /\ DelayIdle /\ FetchIdle
    /\ AliasIdle /\ CleanIdle /\ DateIdle

\* The active sources are loaded; main and run_all_scrapers return at once
\* on an empty list, run_all has no such test.
OrchStart ==
    /\ pc = "idle"
    /\ pc' = IF sources = <<>> /\ orch \in {"fetch_real", "msamb"}
             THEN "done" ELSE "loop"
    /\ UNCHANGED orchVars
    /\ OrchFrame

\* What the orchestrator of file v appends to its results for a source of
\* outcome out.
orch_result(v, out) ==
    CASE v = "fetch_real" -> main_result(out)
      [] v = "msamb" -> run_all_scrapers_result(out)
      [] v = "apmc" -> run_all_result(out)

\* One iteration of the loop of the orchestrator of file v.
OrchSource(v) ==
    /\ orch = v /\ pc = "loop" /\ src_i < Len(sources)
    /\ LET out == sources[src_i + 1] IN
       /\ ran' = [ran EXCEPT ![src_i + 1] = @ + 1]
       /\ results' = results \o orch_result(v, out)
       /\ src_i' = after_try(src_i, out, Len(sources))
    /\ UNCHANGED <<orch, sources, pc>>
    /\ OrchFrame

\* main: `for s in sources:` try process_source(s) / except Exception.
MainSource == OrchSource("fetch_real")

\* run_all_scrapers: `for source in sources:` try scraper.run() / except.
RunAllScrapersSource == OrchSource("msamb")

\* run_all: `for src in sources:` try scraper.run() / except Exception.
RunAllSource == OrchSource("apmc")

\* The loop is exhausted: the summary is logged (and recorded by main).
OrchEnd ==
    /\ pc = "loop" /\ src_i >= Len(sources)
    /\ pc' = "done"
    /\ UNCHANGED orchVars
    /\ OrchFrame

NextOrch ==
    \/ OrchStart
    \/ MainSource
    \/ RunAllScrapersSource
    \/ RunAllSource
    \/ OrchEnd

SpecOrch == InitOrch /\ [][NextOrch]_vars


\* ------------- src/apmc_scraper.py: MSAMBScraper.fetch_commodity_prices

\* for attempt in range(1, 4)
Attempts == 3

\* What one request comes to: session.get raises; a response whose status
\* is not 200; a 200 response without "<tr"; a 200 response with "<tr"
\* that _parse turns into rows rows; one on which _parse raises.
Responses ==
    [kind : {"get_raises", "not_200", "no_tr", "parse_raises"}, rows : {0}]
        \cup [kind : {"table"}, rows : 0..MaxRows]

\* What the loop body does with a response if nothing caught exceptions:
\* those of session.get and of _parse leave the call.
on_response_uncaught(resp) ==
    CASE resp.kind = "table" -> "return"
      [] resp.kind \in {"get_raises", "parse_raises"} -> "raise"
      [] OTHER -> "retry"

\* What the loop body does with a response: `return self._parse(...)` on a
\* 200 response with a table row; `except Exception` logs and sleeps, and
\* the loop goes on, as it does when the `if` fails.
on_response(resp) ==
    CASE resp.kind = "table" -> "return"
      [] OTHER -> "retry"

FetchFrame == UNCHANGED <<sharedVars, runVars, psVars, parseVars, upVars,
                          normVars, aliasVars, cleanVars, dateVars, orchVars,
                          delayVars>>

InitFetch ==
    /\ attempt = 0
    /\ responses = <<>>
    /\ fetch_ret = [ended |-> "no", rows |-> 0]
    /\ store = {}
    /\ pc = "idle"
    /\ todo = <<>>
    /\ batch_i = 0
    /\ RunIdle
    /\ PSIdle
    /\ ParseIdle
    /\ UpIdle
    /\ NormIdle
    /\ DelayIdle
    /\ AliasIdle /\ CleanIdle /\ DateIdle /\ OrchIdle

\* One iteration of `for attempt in range(1, 4)`: one request.
FetchAttempt ==
    /\ fetch_ret.ended = "no" /\ attempt < Attempts
    /\ \E resp \in Responses :
          /\ attempt' = attempt + 1
          /\ responses' = Append(responses, resp)
          /\ fetch_ret' =
                CASE on_response(resp) = "return" ->
                        [ended |-> "returned", rows |-> resp.rows]
                  [] on_response(resp) = "raise" ->
                        [ended |-> "raised", rows |-> 0]
                  [] OTHER -> fetch_ret
    /\ FetchFrame

\* The loop is exhausted: return [].
FetchGiveUp ==
    /\ fetch_ret.ended = "no" /\ attempt >= Attempts
    /\ fetch_ret' = [ended |-> "returned", rows |-> 0]
    /\ UNCHANGED <<attempt, responses>>
    /\ FetchFrame

NextFetch ==
    \/ FetchAttempt
    \/ FetchGiveUp

SpecFetch == InitFetch /\ [][NextFetch]_vars


\* ================================================================= claims

\* The rows of commodity c in a list of rows.
RowsOf(rows, c) == SelectSeq(rows, LAMBDA r : r.code = c)

\* Whether the store holds a row with the natural key of r.
Stored(r) == \E s \in store : Key(s) = Key(r)

\* No two entries of a list of rows share a natural key.
OnePerKey(rows) ==
    \A i, j \in 1..Len(rows) : i # j => Key(rows[i]) # Key(rows[j])

\* ---- C1 (Spec): in a source run the watermark of a commodity is written
\* only after the upsert of the run has succeeded: whenever the database
\* holds a watermark written in this run, _upsert has returned
\* (stats.success is set right after it).
\* The code writes the watermark inside the commodity loop, before _upsert.
C1_WatermarkOnlyAfterUpsert == \A c \in written : stats.success

\* ---- C2 (Spec): at every point of a run, every fetched row dated at or
\* below the persisted watermark of its commodity is in the store.
C2_AtLeastOnce ==
    \A c \in Codes : \A i \in 1..Len(fetched[c]) :
        fetched[c][i].date <= Wm(dbMeta, c) => Stored(fetched[c][i])

\* ---- C3 (SpecParse): a date row whose text does not parse leaves the
\* parser's current date unchanged.
C3_FailedDateRowKeepsDate ==
    [][(row_i' = row_i + 1
        /\ IsDateRow(variant, last_row')
        /\ ParsedDate(variant, last_row'.text) = None)
       => current_date' = current_date]_vars

\* ---- C4 (SpecParse): no row is emitted before a date row has parsed.
C4_NoRowBeforeDate == good_date = None => rows_out = <<>>

\* ---- C5 (SpecPS): the list handed to upsert_batch holds one record per
\* natural key.
C5_OneRecordPerKey == pc = "upsert" => OnePerKey(payloads_to_upsert)

\* modalPrice compared with a missing value as 0.
ModalOrZero(r) == IF r.modal = NoPrice THEN 0 ELSE r.modal

\* ---- C6 (SpecPS): after a run whose chunks were all stored, the record
\* stored under a natural key has the greatest modal price of the records
\* the run produced with that key.
C6_GreatestModalStored ==
    (pc = "done" /\ summary.rows_upserted = Len(payloads_to_upsert)) =>
        \A i \in 1..Len(payloads_to_upsert) :
            \E s \in store :
                /\ Key(s) = Key(payloads_to_upsert[i])
                /\ ModalOrZero(s) >= ModalOrZero(payloads_to_upsert[i])

C8_WatermarkNeverRegresses ==
    [][\A c \in Codes : Wm(dbMeta', c) >= Wm(dbMeta, c)]_vars

\* ---- C9 (Spec): at the end of a run the error counter equals the number
\* of commodities whose fetch failed.
C9_ErrorsCountFailedFetches == pc = "done" => stats.errors = Cardinality(failed)

\* ---- C10 (Spec): after a run, a commodity none of whose rows was accepted
\* in the run (fetch failed, nothing fetched, or nothing left by the resume
\* filter) has the persisted watermark it had when the run started.
C10_WatermarkFrame ==
    pc = "done" =>
        \A c \in Codes :
            RowsOf(all_rows, c) = <<>> => Wm(dbMeta, c) = wm0[c]

\* C10's case: a finished run in which one commodity that had a watermark
\* failed to fetch and kept it, while the watermark of another commodity,
\* whose rows were accepted, advanced.
C10_Witness ==
    /\ pc = "done"
    /\ \E c, a \in Codes :
        /\ c \in failed /\ wm0[c] # None /\ Wm(dbMeta, c) = wm0[c]
        /\ a # c /\ RowsOf(all_rows, a) # <<>> /\ Wm(dbMeta, a) > wm0[a]

\* ---- C11 (Spec): a failing store call does not abort the batches after
\* it: when the upsert of a run is over, every batch of all_rows has been
\* handed to the store (the next batch index is past the end of the list).
\* _upsert of apmc_scraper.py has no try/except around the store call.
C11_EveryBatchAttempted ==
    (pc \in {"status", "done"} /\ all_rows # <<>>) => batch_i >= Len(all_rows)

\* ---- C12 (Spec): the upserted count a run reports is the number of
\* records in the batches whose store call succeeded (the batches before
\* batch_i, a raising call leaving batch_i where it was).
C12_UpsertedCountsCommitted ==
    pc \in {"status", "done"} =>
        stats.records_upserted = Min(batch_i, Len(all_rows))

\* ---- C13 (SpecMS): a run reports success exactly when its upserted
\* count is positive.  run() of msamb_scraper.py sets success after
\* _upsert_records whatever total it returned.
C13_SuccessIffUpserted ==
    pc = "done" => (stats.success <=> stats.records_upserted > 0)

\* ---- C18 (SpecParse): a row of 7 or more cells whose first cell carries
\* a colspan attribute is never emitted as a data row.  _parse of
\* apmc_scraper.py takes only single-cell rows as date rows.
C18_ColspanRowNeverEmitted ==
    [][(row_i' = row_i + 1 /\ last_row'.n >= 7 /\ last_row'.colspan)
       => rows_out' = rows_out]_vars

\* ---- C19 (SpecParse): on every table, parse_generic_table_with_mapping
\* with the fixed layout emits the rows parse_msamb_table emits, with the
\* same dates.
C19_GenericEqualsFixed == variant = "fetch_real" => rows_out = g_rows

\* Two payloads of the list share a natural key and differ.
HasConflict(rows) ==
    \E i, j \in 1..Len(rows) :
        i < j /\ Key(rows[i]) = Key(rows[j]) /\ rows[i] # rows[j]

C15_OnePerKeyLastWins ==
    /\ \A s, t \in store : Key(s) = Key(t) => s = t
    /\ \A s \in store : last_up[Key(s)] = s
    /\ \A k \in UpKeys : last_up[k] # NoRecord => last_up[k] \in store

\* C15's case: a stored chunk held two different payloads of one natural
\* key; the later one is stored, the earlier one is not.
C15_Witness ==
    /\ returned # <<>>
    /\ returned[1] = Len(payloads_to_upsert)
    /\ \E i, j \in 1..Len(payloads_to_upsert) :
        /\ i < j
        /\ Key(payloads_to_upsert[i]) = Key(payloads_to_upsert[j])
        /\ payloads_to_upsert[i] # payloads_to_upsert[j]
        /\ payloads_to_upsert[j] \in store
        /\ payloads_to_upsert[i] \notin store

\* ---- C16 (SpecNorm): every record a normalisation emits has a
\* price_per_unit that is a number, not None, and not negative.
\* normalize_record of msamb_scraper.py emits `modal or max`, None when both
\* are missing.
C16_PricePresent ==
    norm.emitted =>
        (norm.rec.price_per_unit # NoPrice /\ norm.rec.price_per_unit >= 0)

\* ---- C17 (SpecNorm): a row with a date, a market and a strictly positive
\* modal, min or max price is emitted, and no emitted record has
\* price_per_unit = 0.
C17_DroppedOnlyWithoutPositivePrice ==
    norm # NoNorm =>
        /\ (raw.market # 0 /\ (raw.modal > 0 \/ raw.min > 0 \/ raw.max > 0))
              => norm.emitted
        /\ norm.emitted => norm.rec.price_per_unit # 0

\* ---- C20 (SpecNorm): the spread of an emitted record is max - min when
\* both prices are present, 0 included, and None otherwise.
C20_SpreadWhenBothPresent ==
    norm.emitted =>
        norm.rec.spread =
            IF raw.min # NoPrice /\ raw.max # NoPrice
            THEN raw.max - raw.min
            ELSE NoPrice

\* ---- C21 (SpecNorm): no emitted record has a negative spread.  Each of
\* the files subtracts min from max without comparing them.
C21_SpreadNeverNegative ==
    norm.emitted => (norm.rec.spread = NoPrice \/ norm.rec.spread >= 0)

\* An alias mapping holds a usable global code under key k.
HasAlias(map, k) == map[k] \notin {NoAlias, NullCode}

\* ---- C22 (SpecAlias): the global code of a commodity is the alias of its
\* source code, else the alias of its lower-cased display name, else the
\* synthetic code.  process_source looks up the source code only.
C22_LookupOrder ==
    pc = "done" =>
        LET byCode == [kind |-> "code", c |-> global_code.code]
            byName == [kind |-> "name", c |-> global_code.code]
        IN global_code.gc =
              IF HasAlias(alias_map, byCode) THEN alias_map[byCode]
              ELSE IF HasAlias(alias_map, byName) THEN alias_map[byName]
              ELSE synthetic_code(organization, global_code.code)

\* ---- C23 (SpecAlias): the global code of a payload is never null, and
\* it is the synthetic code {ORG}_{code} whenever the alias mapping holds
\* no entry for the commodity code (empty or failed load included).
C23_GlobalCodeNeverNull ==
    pc = "done" =>
        /\ global_code.gc \notin {NoAlias, NullCode}
        /\ alias_get(alias_map, global_code.code) = NoAlias
              => global_code.gc = synthetic_code(organization, global_code.code)

\* C23's case: the alias load failed on a table that holds an alias of the
\* commodity, and the payload got the synthetic code.
C23_Witness ==
    /\ pc = "done"
    /\ alias_map = EmptyAliasMap
    /\ alias_get(aliases, global_code.code) \in GlobalCodes
    /\ organization = ""
    /\ global_code.gc = <<"SRC", global_code.code>>

\* The null, empty and sentinel inputs: None, "", "-", "--", "NA", "N/A",
\* an em-dash.
SentinelText(s) ==
    s \in {NullText, <<>>, <<"-">>, <<"-", "-">>, <<"A", "A">>,
           <<"A", "A", "A">>, <<"A">>}

\* The text of a negative number: a minus sign, then digits with at most
\* one dot, one digit at least not 0 ("-1", "-1.0", "-.1").
NegativeText(s) ==
    /\ s # NullText
    /\ Strip(s) # <<>>
    /\ Head(Strip(s)) = "-"
    /\ Keep(Tail(Strip(s)), Digits \cup {"."}) = Tail(Strip(s))
    /\ IsFloat(Tail(Strip(s)))
    /\ Keep(s, {"1"}) # <<>>

\* ---- C24 (SpecClean): a numeric cleaner returns None for every null,
\* empty or sentinel input and for every negative number.  _clean_numeric
\* and _num strip the minus sign with the other characters.
C24_SentinelAndNegativeToNone ==
    (num_out.by # "none" /\ (SentinelText(num_text) \/ NegativeText(num_text)))
        => num_out.kind = "none"

\* ---- C25 (SpecClean): a numeric cleaner never raises and returns None or
\* a number that is not negative.  _num has no try around float().
C25_CleanerNeverRaises ==
    /\ num_out.kind # "raise"
    /\ num_out.kind = "num" => num_out.sign >= 0

\* ---- C26 (SpecDate): the text dd/mm/yyyy of a valid calendar date
\* parses to that date, and the text of an invalid combination to None.
\* parse_date of msamb_scraper.py returns today's date for the latter.
C26_DayMonthYearRoundTrip ==
    (date_out.by # "none" /\ date_text.fmt = "num4" /\ date_text.sep = "/")
    => IF ValidDate(date_text.y, date_text.m, date_text.d)
       THEN /\ date_out.kind = "date"
            /\ date_out.y = date_text.y
            /\ date_out.m = date_text.m
            /\ date_out.d = date_text.d
       ELSE date_out.kind = "none"

\* ---- C27 (SpecDate): parse_date_string reads a 2-digit year YY as
\* 2000 + YY below 70 and as 1900 + YY from 70 on, and a text with a
\* 4-digit year or a textual month keeps the year it carries.
C27_TwoDigitYearPivot ==
    date_out.by = "fetch_real" =>
        /\ (/\ date_text.fmt = "num2"
            /\ date_text.sep \in {"/", "-", "."}
            /\ ValidDate(IF date_text.y < 70 THEN 2000 + date_text.y
                         ELSE 1900 + date_text.y, date_text.m, date_text.d))
           => /\ date_out.kind = "date"
              /\ date_out.y = IF date_text.y < 70 THEN 2000 + date_text.y
                              ELSE 1900 + date_text.y
              /\ date_out.m = date_text.m
              /\ date_out.d = date_text.d
        /\ (/\ \/ date_text.fmt = "num4" /\ date_text.sep \in {"/", "-", "."}
               \/ date_text.fmt = "text"
            /\ ValidDate(date_text.y, date_text.m, date_text.d))
           => (date_out.kind = "date" /\ date_out.y = date_text.y)

\* C27's case: the text 31-12-70 parsed by parse_date_string to 1970-12-31.
C27_Witness ==
    /\ date_out.by = "fetch_real"
    /\ date_text = [fmt |-> "num2", sep |-> "-", d |-> 31, m |-> 12, y |-> 70]
    /\ date_out.kind = "date"
    /\ date_out.y = 1970


\* ---- C28 (SpecParse): a row that does not fit or whose cells fail to
\* normalize is discarded alone: reading a row never removes a row that
\* was emitted before it from the parser's output.
C28_MalformedRowDiscardedAlone ==
    [][\A i \in 1..Len(rows_out) :
          i <= Len(rows_out') /\ rows_out'[i] = rows_out[i]]_vars


\* ---- C29 (SpecPS): a run of process_source in which no commodity
\* yielded a row and no request failed (zero commodities found, or zero
\* parsed rows for each) ends with no error recorded.
C29_ZeroRunRecordsNoError ==
    (/\ pc = "done"
     /\ summary.commodities_processed = 0
     /\ \A i \in 1..Len(summary.errors) : summary.errors[i] # "empty_response")
    => summary.errors = <<>>


\* ---- C30 (SpecOrch): for every list of active sources, no source is run
\* twice, and when the orchestrator has finished every source has been run
\* exactly once, whatever the outcome (exception, zero records) of the
\* sources before it.
C30_EachSourceRunOnce ==
    /\ \A i \in 1..Len(sources) : ran[i] <= 1
    /\ pc = "done" => \A i \in 1..Len(sources) : ran[i] = 1

\* An orchestrator has finished a list whose first source raised and whose
\* second upserted nothing, and a source after them was run.
C30_Witness ==
    /\ orch # "none" /\ pc = "done"
    /\ Len(sources) >= 3
    /\ sources[1] = "raises" /\ sources[2] = "zero"
    /\ ran[3] = 1


\* ---- C31 (SpecPS): within one source run, every commodity request but
\* the first is issued after the inter-request delay: the iteration of
\* the request before it ended in time.sleep(THROTTLE_SECONDS), not in a
\* `continue`.
C31_DelayBetweenFetches ==
    [][(pc = "loop" /\ Len(todo') < Len(todo)) => slept # "continue"]_vars


\* ---- C32 (Spec): the status write at the end of a run, failed or not,
\* ends the run normally and changes neither the upserted records nor the
\* statistics the run returns.
C32_StatusFailureSwallowed ==
    [][pc = "status" => (pc' = "done" /\ store' = store /\ stats' = stats)]_vars

\* A run that upserted records has returned although its status write
\* raised: the persisted metadata is not the one the write would have left.
C32_Witness ==
    /\ pc = "done"
    /\ stats.records_upserted > 0
    /\ faults > 0
    /\ dbMeta # update_source_meta(cfgMeta)


\* The records of a list of batches, in order.
RECURSIVE Flatten(_)
Flatten(bs) == IF bs = <<>> THEN <<>> ELSE Head(bs) \o Flatten(Tail(bs))

\* ---- C33 (SpecUpsert): the chunks upsert_batch hands to the store are
\* consecutive batches of the input: each holds between 1 and BatchSize
\* records, every one but the last of the call holds exactly BatchSize,
\* together they are a prefix of the input in input order and, once the
\* call has returned, the whole input; an empty input issues no store call.
C33_BatchesPartitionInput ==
    /\ \A k \in 1..Len(batches) :
          /\ Len(batches[k]) \in 1..BatchSize
          /\ k < Len(batches) => Len(batches[k]) = BatchSize
    /\ Flatten(batches) =
          SubSeq(payloads_to_upsert, 1, Len(Flatten(batches)))
    /\ (pc = "upsert" /\ Len(Flatten(batches)) < Len(payloads_to_upsert))
          => (batches # <<>> => Len(batches[Len(batches)]) = BatchSize)
    /\ (pc = "idle" /\ returned # <<>>)
          => Flatten(batches) = payloads_to_upsert
    /\ payloads_to_upsert = <<>> => batches = <<>>

\* A call on more records than one batch holds has returned: a full batch
\* was followed by a shorter last one.
C33_Witness ==
    /\ pc = "idle" /\ returned # <<>>
    /\ Len(payloads_to_upsert) > BatchSize
    /\ Len(batches) = 2
    /\ Len(batches[2]) < BatchSize


\* ---- C34 (SpecParse): every row a table parser emits carries the date of
\* the most recent date row before it that parsed, never a date that no
\* date row of the input gave.
C34_RowDateFromDateRow ==
    [][Len(rows_out') > Len(rows_out)
       => /\ good_date # None
          /\ rows_out'[Len(rows_out')].date = good_date]_vars


\* ---- C35 (Spec): the status report at the end of a run leaves every
\* persisted watermark as it was, whatever the source metadata the run
\* started from.
C35_StatusKeepsWatermarks ==
    [][pc = "status" => \A c \in Codes : Wm(dbMeta', c) = Wm(dbMeta, c)]_vars


\* ---- C36 (Spec): the iteration of one commodity, which may advance that
\* commodity's watermark, leaves the persisted watermark of every other
\* commodity as it was, whatever the source metadata the run started from.
C36_OtherWatermarksKept ==
    [][(pc = "loop" /\ todo # <<>> /\ todo' = Tail(todo))
       => \A c \in Codes \ {Head(todo)} : Wm(dbMeta', c) = Wm(dbMeta, c)]_vars


\* The requests so far that came to a 200 response with a table row that
\* _parse read.
TableAt == {k \in 1..Len(responses) : responses[k].kind = "table"}

\* ---- C37 (SpecFetch): fetch_commodity_prices issues at most 3 requests
\* and never raises; once it has returned, it returned the rows _parse read
\* from the first 200 response with a table row, which was its last
\* request, or the empty list after 3 requests none of which gave one.
C37_FetchEndsWithinThreeRequests ==
    /\ attempt <= 3 /\ Len(responses) = attempt
    /\ fetch_ret.ended # "raised"
    /\ fetch_ret.ended = "returned" =>
          IF TableAt # {}
          THEN /\ TableAt = {attempt}
               /\ fetch_ret.rows = responses[attempt].rows
          ELSE attempt = 3 /\ fetch_ret.rows = 0

\* The call has returned the rows of its third request, after a request
\* that raised and a response on which _parse raised.
C37_Witness ==
    /\ fetch_ret.ended = "returned" /\ fetch_ret.rows > 0
    /\ attempt = 3
    /\ responses[1].kind = "get_raises"
    /\ responses[2].kind = "parse_raises"


\* ---- C38 (SpecParse): reading a row that has at least 7 cells, is no
\* date row and comes while a date is current appends exactly one row to
\* the output, in input order, and keeps the rows before it; reading any
\* other row that is no date row changes neither the output nor the
\* current date.
C38_OneRowPerQualifyingRow ==
    [][(row_i' = row_i + 1 /\ ~IsDateRow(variant, last_row'))
       => /\ current_date' = current_date
          /\ rows_out' =
                IF last_row'.n >= 7 /\ current_date # None
                THEN Append(rows_out, [date |-> current_date, src |-> row_i'])
                ELSE rows_out]_vars

============================================================================
